---- MODULE Spec2Model ----
(***************************************************************************)
(* Model of smile_datasets/simcse/unsup_dataset.py: the record codec of    *)
(* DatasetForUnsupervisedSimCSE.save_tfrecord and                          *)
(* DatapipeForUnsupervisedSimCSE.from_tfrecord_files, the builders         *)
(* from_instances / from_dataset / from_examples, and the pipeline stages  *)
(* _filter, _fixed_padding, _batch_padding and _bucket_padding.            *)
(*                                                                         *)
(* A tf.data.Dataset is modelled as the finite sequence of its elements;   *)
(* iterating the returned dataset is the action get_next, one batch per    *)
(* step.                                                                   *)
(***************************************************************************)
EXTENDS Integers, Sequences, FiniteSets, TLC

\* Longest example (number of tokens) the builders are given.
MaxLen == 3
\* Most instances / examples / dataset items in one builder call.
MaxExamples == 3
\* Most examples written by one save_tfrecord call.
MaxRecords == 2

VARIABLES
    pc,        \* "idle" | "none" (returned None) | "open" (dataset returned) | "end" | "error"
    entry,     \* which builder was called
    input,     \* the builder's first argument, as given
    kwargs,    \* the options of the call
    examples,  \* the collection that reached from_examples
    parsed,    \* the instances parser.parse was invoked on, in order
    warnings,  \* number of logging.warning calls
    stream,    \* elements the padding stage has not consumed yet
    windows,   \* bucket id -> elements waiting in that bucket's window
    batches,   \* the batches yielded so far, in order
    files,     \* the records of the tfrecord files, in order
    saved,     \* per record, the example save_tfrecord encoded (None: another writer's)
    decoded,   \* the elements the decoding maps of from_tfrecord_files emit
    raises     \* reading on past the elements of `stream` raises an error

codecVars == <<files, saved, decoded, raises>>

vars == <<pc, entry, input, kwargs, examples, parsed, warnings, stream, windows, batches,
          files, saved, decoded, raises>>

----------------------------------------------------------------------------
\* Values

\* Python's None.
None == [none |-> TRUE]

\* A Python list and a Python str, kept apart from None.
PyList(items) == [list |-> items]
Text(chars) == [text |-> chars]

\* `not x` for the values the builders test: None, [] and "".
Falsy(x) == x = None \/ x = PyList(<<>>) \/ x = Text(<<>>)

Max(S) == CHOOSE m \in S : \A n \in S : n <= m

\* ExampleForUnsupervisedSimCSE: three equal-length integer sequences.
Example(ids) ==
    [input_ids      |-> ids,
     segment_ids    |-> [i \in 1..Len(ids) |-> 0],
     attention_mask |-> [i \in 1..Len(ids) |-> 1]]

ExampleSet == {Example([i \in 1..n |-> 100 + i]) : n \in 1..MaxLen}

\* Raw instances: None, or a text as the sequence of its pieces, 0 a blank
\* and 7, 8 words.
InstanceSet == {None, Text(<<>>), Text(<<0>>), Text(<<7>>), Text(<<8>>)}

SeqsUpTo(S, n) == UNION {[1..k -> S] : k \in 0..n}

PadIds == {0, 1}
BatchSizes == {1, 2}
BoundaryChoices == {<<3>>, <<2, 3>>}

\* The options of a call; bucket_boundaries, which bucket padding alone
\* reads, is varied with that strategy only.
KwargsSet ==
    {kw \in [max_sequence_length : 1..MaxLen,
             do_filter           : BOOLEAN,
             pad_id              : PadIds,
             batch_size          : BatchSizes,
             padding             : {"fixed", "batch", "bucket"},
             bucket_boundaries   : BoundaryChoices] :
        kw.padding # "bucket" => kw.bucket_boundaries = <<3>>}

NoKwargs ==
    [max_sequence_length |-> 1, do_filter |-> TRUE, pad_id |-> 0, batch_size |-> 1,
     padding |-> "fixed", bucket_boundaries |-> <<3>>]

----------------------------------------------------------------------------
\* ParserForUnsupervisedSimCSE.parse: the words of the text between the
\* start and end special tokens, or None when no token is left.
parse(instance) ==
    LET toks == SelectSeq(instance.text, LAMBDA ch : ch # 0)
    IN  IF toks = <<>> THEN None
        ELSE Example(<<101>> \o [i \in 1..Len(toks) |-> 200 + toks[i]] \o <<102>>)

----------------------------------------------------------------------------
\* Pipeline stages

\* _to_dataset + Dataset.zip: one element per example, fields (a, b, c);
\* idx is the example's position in the collection.
zip(exs) ==
    [i \in 1..Len(exs) |->
        [idx |-> i, a |-> exs[i].input_ids, b |-> exs[i].segment_ids,
         c |-> exs[i].attention_mask]]

\* _filter with `<` in place of `<=`.
filter_strict(dataset, do_filter, max_sequence_length) ==
    IF ~do_filter THEN dataset
    ELSE SelectSeq(dataset, LAMBDA e : Len(e.a) < max_sequence_length)

_filter(dataset, do_filter, max_sequence_length) ==
    IF ~do_filter THEN dataset
    ELSE SelectSeq(dataset, LAMBDA e : Len(e.a) <= max_sequence_length)

\* An unknown dimension of padded_shapes ([None, ]).
AnyDim == 0 - 1

\* _fixed_padding padding to the batch's longest member.
fixed_padding_dynamic(kw) ==
    [op |-> "batching",
     padded_shapes  |-> <<AnyDim, AnyDim, AnyDim>>,
     padding_values |-> <<kw.pad_id, kw.pad_id, kw.pad_id>>]

_fixed_padding(kw) ==
    [op |-> "batching",
     padded_shapes  |-> <<kw.max_sequence_length, kw.max_sequence_length,
                          kw.max_sequence_length>>,
     padding_values |-> <<kw.pad_id, kw.pad_id, kw.pad_id>>]

\* _batch_padding padding to max_sequence_length.
batch_padding_fixed(kw) ==
    [op |-> "batching",
     padded_shapes  |-> <<kw.max_sequence_length, kw.max_sequence_length,
                          kw.max_sequence_length>>,
     padding_values |-> <<kw.pad_id, kw.pad_id, kw.pad_id>>]

_batch_padding(kw) ==
    [op |-> "batching",
     padded_shapes  |-> <<AnyDim, AnyDim, AnyDim>>,
     padding_values |-> <<kw.pad_id, kw.pad_id, kw.pad_id>>]

\* _bucket_padding padding to max_sequence_length.
bucket_padding_fixed(kw) ==
    [op |-> "bucketing",
     padded_shapes  |-> <<kw.max_sequence_length, kw.max_sequence_length,
                          kw.max_sequence_length>>,
     padding_values |-> <<kw.pad_id, kw.pad_id, kw.pad_id>>]

\* bucket_fn is lambda a, b, c: tf.size(a), see bucket_fn below.
_bucket_padding(kw) ==
    [op |-> "bucketing",
     padded_shapes  |-> <<AnyDim, AnyDim, AnyDim>>,
     padding_values |-> <<kw.pad_id, kw.pad_id, kw.pad_id>>]

bucket_fn(e) == Len(e.a)

\* The padding strategy the caller chose.
Plan(kw) ==
    CASE kw.padding = "fixed"  -> _fixed_padding(kw)
      [] kw.padding = "batch"  -> _batch_padding(kw)
      [] kw.padding = "bucket" -> _bucket_padding(kw)

\* One row brought to length n, "padded/truncated": cut after n, filled
\* with v beyond its end.
PadTo(row, n, v) == [i \in 1..n |-> IF i <= Len(row) THEN row[i] ELSE v]

\* The padded length of a field: the shape's, or the longest row's when the
\* shape leaves it open.
Dim(shape, rows) ==
    IF shape = AnyDim THEN Max({Len(rows[i]) : i \in 1..Len(rows)}) ELSE shape

\* The batch utils.batching_and_padding / utils.bucketing_and_padding make of
\* the elements elems, under the padded_shapes and padding_values of plan.
pad_batch(elems, plan) ==
    LET as == [i \in 1..Len(elems) |-> elems[i].a]
        bs == [i \in 1..Len(elems) |-> elems[i].b]
        cs == [i \in 1..Len(elems) |-> elems[i].c]
    IN  [members        |-> [i \in 1..Len(elems) |-> elems[i].idx],
         input_ids      |-> [i \in 1..Len(elems) |->
                                PadTo(as[i], Dim(plan.padded_shapes[1], as),
                                      plan.padding_values[1])],
         segment_ids    |-> [i \in 1..Len(elems) |->
                                PadTo(bs[i], Dim(plan.padded_shapes[2], bs),
                                      plan.padding_values[2])],
         attention_mask |-> [i \in 1..Len(elems) |->
                                PadTo(cs[i], Dim(plan.padded_shapes[3], cs),
                                      plan.padding_values[3])]]

Take(s, n) == SubSeq(s, 1, IF n < Len(s) THEN n ELSE Len(s))
Drop(s, n) == SubSeq(s, (IF n < Len(s) THEN n ELSE Len(s)) + 1, Len(s))

\* Bucket of a key: the number of boundaries it has reached.
BucketOf(key, boundaries) ==
    Cardinality({i \in 1..Len(boundaries) : boundaries[i] <= key})

BucketIds == 0..2
NoWindows == [k \in BucketIds |-> <<>>]

\* Reading the input into the windows until one of them is full.
RECURSIVE Feed(_, _, _)
Feed(s, w, kw) ==
    IF s = <<>> THEN [s |-> s, w |-> w, full |-> AnyDim]
    ELSE LET e  == Head(s)
             k  == BucketOf(bucket_fn(e), kw.bucket_boundaries)
             w2 == [w EXCEPT ![k] = Append(@, e)]
         IN  IF Len(w2[k]) = kw.batch_size
             THEN [s |-> Tail(s), w |-> w2, full |-> k]
             ELSE Feed(Tail(s), w2, kw)

----------------------------------------------------------------------------
\* Record codec

\* A Python int v of an example is the pair <<hi, lo>> with v = hi * 2^16 + lo
\* and lo in 0..2^16-1; a tf.int32 is the number itself.
Limb == 2 ^ 16
Wide(n) == <<n \div Limb, n % Limb>>

\* tf.cast(int64 -> int32): the low 32 bits, as a signed number.
Cast32(v) ==
    LET h == v[1] % Limb
    IN  (IF h >= Limb \div 2 THEN h - Limb ELSE h) * Limb + v[2]

FeatureKeys == {"input_ids", "segment_ids", "attention_mask"}

\* utils.int64_feature: a tf.train.Feature holding an int64_list.
int64_feature(values) == [kind |-> "int64_list", value |-> values]

\* _encoding with segment_ids and attention_mask under each other's name.
encoding_swapped(example) ==
    [k \in FeatureKeys |->
        int64_feature(CASE k = "input_ids"      -> example.input_ids
                        [] k = "segment_ids"    -> example.attention_mask
                        [] k = "attention_mask" -> example.segment_ids)]

\* save_tfrecord's _encoding; int(x) of an int is x.
_encoding(example) ==
    [k \in FeatureKeys |->
        int64_feature(CASE k = "input_ids"      -> example.input_ids
                        [] k = "segment_ids"    -> example.segment_ids
                        [] k = "attention_mask" -> example.attention_mask)]

\* tf.io.parse_example fails on a feature of another kind than the schema's
\* VarLenFeature(tf.int64); an absent key is no failure.
Parses(record) ==
    \A k \in FeatureKeys \cap DOMAIN record : record[k].kind = "int64_list"

\* tf.io.parse_example with the three VarLenFeature(tf.int64): the values
\* under each key, none when the record has no such key.
parse_example(record) ==
    [k \in FeatureKeys |-> IF k \in DOMAIN record THEN record[k].value ELSE <<>>]

\* The second map: to_dense and the cast of the three fields, in order.
to_int32(x) ==
    [a |-> [i \in 1..Len(x["input_ids"]) |-> Cast32(x["input_ids"][i])],
     b |-> [i \in 1..Len(x["segment_ids"]) |-> Cast32(x["segment_ids"][i])],
     c |-> [i \in 1..Len(x["attention_mask"]) |-> Cast32(x["attention_mask"][i])]]

\* The records before the first one that does not parse.
RECURSIVE Readable(_)
Readable(records) ==
    IF records = <<>> \/ ~Parses(Head(records)) THEN <<>>
    ELSE <<Head(records)>> \o Readable(Tail(records))

\* Examples written by save_tfrecord: Python ints of any size.
WideExample(ids) ==
    [input_ids      |-> ids,
     segment_ids    |-> [i \in 1..Len(ids) |-> Wide(0)],
     attention_mask |-> [i \in 1..Len(ids) |-> Wide(1)]]

\* 2^31 - 1, 2^31 and -1.
WideVals == {<<Limb \div 2 - 1, Limb - 1>>, <<Limb \div 2, 0>>, Wide(0 - 1)}

WideExampleSet ==
    {WideExample(<<v>>) : v \in WideVals} \cup {WideExample(<<Wide(101), Wide(5)>>)}

Without(record, key) == [k \in DOMAIN record \ {key} |-> record[k]]

\* Records of another writer: one of the three fields absent, or
\* segment_ids written as a float_list.
ForeignRecords ==
    LET r == _encoding(WideExample(<<Wide(101), Wide(5)>>))
    IN  {Without(r, k) : k \in FeatureKeys}
            \cup {[r EXCEPT !["segment_ids"] = [kind |-> "float_list", value |-> <<>>]]}

----------------------------------------------------------------------------
\* Builders

\* Datapipe.__call__: filter, then the chosen padding strategy, lazily.
Call(dataset, kw) ==
    /\ stream' = _filter(dataset, kw.do_filter, kw.max_sequence_length)
    /\ windows' = NoWindows
    /\ batches' = <<>>
    /\ pc' = "open"

\* from_examples without the empty check.
from_examples_unchecked(exs, kw) ==
    /\ examples' = exs
    /\ warnings' = warnings
    /\ Call(zip(IF exs = None THEN <<>> ELSE exs.list), kw)

from_examples(exs, kw) ==
    /\ examples' = exs
    /\ IF Falsy(exs)
       THEN /\ warnings' = warnings + 1
            /\ pc' = "none"
            /\ UNCHANGED <<stream, windows, batches>>
       ELSE /\ warnings' = warnings
            /\ Call(zip(exs.list), kw)

\* The loop of from_instances leaving at the first empty instance or null
\* parse result instead of going on to the next instance.
RECURSIVE Collect_break(_)
Collect_break(instances) ==
    IF instances = <<>> THEN [parsed |-> <<>>, examples |-> <<>>]
    ELSE LET inst == Head(instances)
         IN  IF Falsy(inst) THEN [parsed |-> <<>>, examples |-> <<>>]
             ELSE LET e == parse(inst)
                  IN  IF Falsy(e) THEN [parsed |-> <<inst>>, examples |-> <<>>]
                      ELSE LET rest == Collect_break(Tail(instances))
                           IN  [parsed   |-> <<inst>> \o rest.parsed,
                                examples |-> <<e>> \o rest.examples]

\* The loop of from_instances: the instances handed to the parser, and the
\* examples collected.
RECURSIVE Collect(_)
Collect(instances) ==
    IF instances = <<>> THEN [parsed |-> <<>>, examples |-> <<>>]
    ELSE LET rest == Collect(Tail(instances))
             inst == Head(instances)
         IN  IF Falsy(inst) THEN rest
             ELSE LET e == parse(inst)
                  IN  [parsed   |-> <<inst>> \o rest.parsed,
                       examples |-> IF Falsy(e) THEN rest.examples
                                    ELSE <<e>> \o rest.examples]

from_instances(instances, kw) ==
    /\ pc = "idle"
    /\ entry' = "from_instances"
    /\ input' = instances
    /\ kwargs' = kw
    /\ parsed' = Collect(instances).parsed
    /\ UNCHANGED codecVars
    /\ from_examples(PyList(Collect(instances).examples), kw)

from_dataset(dataset, kw) ==
    /\ pc = "idle"
    /\ entry' = "from_dataset"
    /\ input' = dataset
    /\ kwargs' = kw
    /\ parsed' = <<>>
    /\ UNCHANGED codecVars
    /\ from_examples(PyList(SelectSeq(dataset, LAMBDA e : ~Falsy(e))), kw)

from_examples_call(exs, kw) ==
    /\ pc = "idle"
    /\ entry' = "from_examples"
    /\ input' = exs
    /\ kwargs' = kw
    /\ parsed' = <<>>
    /\ UNCHANGED codecVars
    /\ from_examples(exs, kw)

\* save_tfrecord: one record per example of the dataset.
save_tfrecord(dataset) ==
    /\ pc = "idle"
    /\ files = <<>>
    /\ files' = [i \in 1..Len(dataset) |-> _encoding(dataset[i])]
    /\ saved' = dataset
    /\ UNCHANGED <<pc, entry, input, kwargs, examples, parsed, warnings, stream, windows,
                   batches, decoded, raises>>

\* Another program appends a record to the files.
other_writer(record) ==
    /\ pc = "idle"
    /\ \A i \in 1..Len(saved) : saved[i] # None
    /\ files' = Append(files, record)
    /\ saved' = Append(saved, None)
    /\ UNCHANGED <<pc, entry, input, kwargs, examples, parsed, warnings, stream, windows,
                   batches, decoded, raises>>

\* from_tfrecord_files: parse, to_dense and cast of every record, then the
\* pipeline; idx is the record's position in the files.
from_tfrecord_files(kw) ==
    /\ pc = "idle"
    /\ entry' = "from_tfrecord_files"
    /\ kwargs' = kw
    /\ LET good == Readable(files)
           out  == [i \in 1..Len(good) |-> to_int32(parse_example(good[i]))]
       IN  /\ decoded' = out
           /\ raises' = (Len(good) < Len(files))
           /\ Call([i \in 1..Len(out) |->
                       [idx |-> i, a |-> out[i].a, b |-> out[i].b, c |-> out[i].c]], kw)
    /\ UNCHANGED <<input, examples, parsed, warnings, files, saved>>

----------------------------------------------------------------------------
\* Iterating the returned dataset

\* utils.batching_and_padding: the next batch_size elements, padded.
batching_get_next ==
    /\ pc = "open"
    /\ Plan(kwargs).op = "batching"
    /\ stream # <<>>
    /\ Len(stream) >= kwargs.batch_size \/ ~raises
    /\ batches' = Append(batches, pad_batch(Take(stream, kwargs.batch_size), Plan(kwargs)))
    /\ stream' = Drop(stream, kwargs.batch_size)
    /\ UNCHANGED <<pc, entry, input, kwargs, examples, parsed, warnings, windows>>
    /\ UNCHANGED codecVars

\* utils.bucketing_and_padding: the next full window, or at the end of the
\* input one of the windows left.
bucketing_get_next ==
    /\ pc = "open"
    /\ Plan(kwargs).op = "bucketing"
    /\ LET f == Feed(stream, windows, kwargs)
       IN  /\ stream' = f.s
           /\ \E k \in BucketIds :
                 /\ IF f.full # AnyDim THEN k = f.full ELSE ~raises /\ f.w[k] # <<>>
                 /\ batches' = Append(batches, pad_batch(f.w[k], Plan(kwargs)))
                 /\ windows' = [f.w EXCEPT ![k] = <<>>]
    /\ UNCHANGED <<pc, entry, input, kwargs, examples, parsed, warnings>>
    /\ UNCHANGED codecVars

\* The iterator is exhausted.
end_of_sequence ==
    /\ pc = "open"
    /\ stream = <<>>
    /\ windows = NoWindows
    /\ ~raises
    /\ pc' = "end"
    /\ UNCHANGED <<entry, input, kwargs, examples, parsed, warnings, stream, windows, batches>>
    /\ UNCHANGED codecVars

\* The error of a record that does not parse reaches the caller when the
\* iteration reads it: while filling a batch, or a bucket's window.
iteration_error ==
    /\ pc = "open"
    /\ raises
    /\ IF Plan(kwargs).op = "batching"
       THEN Len(stream) < kwargs.batch_size
       ELSE Feed(stream, windows, kwargs).full = AnyDim
    /\ pc' = "error"
    /\ UNCHANGED <<entry, input, kwargs, examples, parsed, warnings, stream, windows, batches>>
    /\ UNCHANGED codecVars

----------------------------------------------------------------------------
Init ==
    /\ pc = "idle"
    /\ entry = "none"
    /\ input = <<>>
    /\ kwargs = NoKwargs
    /\ examples = None
    /\ parsed = <<>>
    /\ warnings = 0
    /\ stream = <<>>
    /\ windows = NoWindows
    /\ batches = <<>>
    /\ files = <<>>
    /\ saved = <<>>
    /\ decoded = <<>>
    /\ raises = FALSE

\* The builder's inputs are drawn only while no call has been made.
Next ==
    \/ /\ pc = "idle"
       /\ \E exs \in {PyList(s) : s \in SeqsUpTo(ExampleSet, MaxExamples)} \cup {None},
             kw \in KwargsSet :
             from_examples_call(exs, kw)
    \/ /\ pc = "idle"
       /\ \E instances \in SeqsUpTo(InstanceSet, MaxExamples), kw \in KwargsSet :
             from_instances(instances, kw)
    \/ /\ pc = "idle"
       /\ \E dataset \in SeqsUpTo(ExampleSet \cup {None}, MaxExamples), kw \in KwargsSet :
             from_dataset(dataset, kw)
    \/ batching_get_next
    \/ bucketing_get_next
    \/ end_of_sequence

Spec == Init /\ [][Next]_vars

\* Writing tfrecord files and building from them.
NextCodec ==
    \/ /\ pc = "idle"
       /\ \E dataset \in SeqsUpTo(WideExampleSet, MaxRecords) \ {<<>>} :
             save_tfrecord(dataset)
    \/ /\ pc = "idle"
       /\ \E record \in ForeignRecords : other_writer(record)
    \/ /\ pc = "idle"
       /\ \E kw \in KwargsSet : from_tfrecord_files(kw)
    \/ batching_get_next
    \/ bucketing_get_next
    \/ end_of_sequence
    \/ iteration_error

SpecCodec == Init /\ [][NextCodec]_vars

----------------------------------------------------------------------------
\* Properties of the builders and the pipeline (under Spec)

\* The i-th example of the collection from_examples was handed.
Orig(i) == examples.list[i]
OrigLen(i) == Len(Orig(i).input_ids)

\* The dataset has been returned and nothing has been read from it.
Fresh == pc = "open" /\ batches = <<>> /\ windows = NoWindows

Built == pc \in {"open", "end"}

\* The examples the filter is to let through.
Kept ==
    {i \in 1..Len(examples.list) :
        ~kwargs.do_filter \/ OrigLen(i) <= kwargs.max_sequence_length}

Idx(elems) == {elems[k].idx : k \in 1..Len(elems)}

BatchRows(b) == 1..Len(b.members)

\* Every row of batch b has length n in the three fields.
RowsHaveLen(b, n) ==
    /\ Len(b.input_ids) = Len(b.members)
    /\ Len(b.segment_ids) = Len(b.members)
    /\ Len(b.attention_mask) = Len(b.members)
    /\ \A r \in BatchRows(b) :
          /\ Len(b.input_ids[r]) = n
          /\ Len(b.segment_ids[r]) = n
          /\ Len(b.attention_mask[r]) = n

LongestMember(b) == Max({OrigLen(b.members[r]) : r \in BatchRows(b)})

\* C1: with do_filter on, the filter stage lets through exactly the examples
\* whose input_ids are no longer than max_sequence_length (one of exactly
\* that length is kept), unchanged and in the original order; with do_filter
\* off it lets every example through.
C1_FilterKeepsExactlyShort ==
    Fresh =>
        /\ \A k \in 1..Len(stream) :
              /\ stream[k].idx \in 1..Len(examples.list)
              /\ stream[k].a = Orig(stream[k].idx).input_ids
              /\ stream[k].b = Orig(stream[k].idx).segment_ids
              /\ stream[k].c = Orig(stream[k].idx).attention_mask
        /\ \A k \in 1..(Len(stream) - 1) : stream[k].idx < stream[k + 1].idx
        /\ Idx(stream) = Kept

\* A filtered stream that kept an example of exactly the maximum length and
\* dropped a longer one.
C1_Witness ==
    /\ Fresh
    /\ kwargs.do_filter
    /\ \E i \in Idx(stream) : OrigLen(i) = kwargs.max_sequence_length
    /\ \E i \in Idx(stream) : OrigLen(i) < kwargs.max_sequence_length
    /\ \E j \in 1..Len(examples.list) :
          OrigLen(j) > kwargs.max_sequence_length /\ j \notin Idx(stream)

C3_PaddedPositions ==
    Built =>
        \A k \in 1..Len(batches) : \A r \in BatchRows(batches[k]) :
            LET b == batches[k]
                e == Orig(b.members[r])
                L == Len(e.input_ids)
            IN  /\ \A i \in 1..Len(b.input_ids[r]) :
                      b.input_ids[r][i] = IF i <= L THEN e.input_ids[i] ELSE kwargs.pad_id
                /\ \A i \in 1..Len(b.segment_ids[r]) :
                      b.segment_ids[r][i] = IF i <= L THEN e.segment_ids[i] ELSE kwargs.pad_id
                /\ \A i \in 1..Len(b.attention_mask[r]) :
                      b.attention_mask[r][i] = IF i <= L THEN e.attention_mask[i] ELSE 0

\* The examples in the order they reach the padding stage.
RECURSIVE Members(_)
Members(bs) == IF bs = <<>> THEN <<>> ELSE Head(bs).members \o Members(Tail(bs))

InOrder == Members(batches) \o [k \in 1..Len(stream) |-> stream[k].idx]

Min2(a, b) == IF a < b THEN a ELSE b

\* C4: under batch padding batch k holds the k-th run of batch_size
\* consecutive examples of the stream, in the stream's order, and is padded
\* in the three fields to the length of its own longest member.
C4_BatchPadding ==
    (Built /\ kwargs.padding = "batch") =>
        /\ \A j \in 1..(Len(InOrder) - 1) : InOrder[j] < InOrder[j + 1]
        /\ \A k \in 1..Len(batches) :
              /\ batches[k].members =
                    SubSeq(InOrder, (k - 1) * kwargs.batch_size + 1,
                           Min2(k * kwargs.batch_size, Len(InOrder)))
              /\ RowsHaveLen(batches[k], LongestMember(batches[k]))

\* Batch padding with two examples of different lengths in the first batch,
\* padded to the longer one's length, which is above max_sequence_length,
\* and a second batch of another padded length.
C4_Witness ==
    /\ Built
    /\ kwargs.padding = "batch"
    /\ Len(batches) = 2
    /\ batches[1].members = <<1, 2>>
    /\ OrigLen(1) < OrigLen(2)
    /\ Len(batches[1].input_ids[1]) = OrigLen(2)
    /\ Len(batches[1].input_ids[1]) > kwargs.max_sequence_length
    /\ Len(batches[2].input_ids[1]) # Len(batches[1].input_ids[1])

\* The bucket of an example.
OrigBucket(i) == BucketOf(OrigLen(i), kwargs.bucket_boundaries)

\* C5: under bucket padding an example's bucket is decided by the length of
\* its input_ids alone, every example that reaches the stage is in exactly
\* one place (still to be read, waiting in its bucket's window, or in one
\* batch, and at the end in exactly one batch), and every batch is padded in
\* the three fields to the length of its longest member.
C5_BucketPadding ==
    (Built /\ kwargs.padding = "bucket") =>
        LET waiting == UNION {Idx(windows[k]) : k \in BucketIds}
            batched == {Members(batches)[j] : j \in 1..Len(Members(batches))}
        IN  /\ \A k \in BucketIds : \A j \in 1..Len(windows[k]) :
                  OrigBucket(windows[k][j].idx) = k
            /\ \A k \in 1..Len(batches) :
                  /\ Len(batches[k].members) \in 1..kwargs.batch_size
                  /\ \A r \in BatchRows(batches[k]) :
                        OrigBucket(batches[k].members[r]) = OrigBucket(batches[k].members[1])
                  /\ RowsHaveLen(batches[k], LongestMember(batches[k]))
            /\ Idx(stream) \cup waiting \cup batched = Kept
            /\ Cardinality(Idx(stream)) + Cardinality(waiting) + Len(Members(batches))
                  = Cardinality(Kept)
            /\ pc = "end" => batched = Kept

\* Bucket padding, finished: a batch of two examples of different lengths
\* padded to the longer one's length, which is neither the bucket's upper
\* boundary nor max_sequence_length, and an example of another bucket
\* between them in the input.
C5_Witness ==
    /\ pc = "end"
    /\ kwargs.padding = "bucket"
    /\ kwargs.bucket_boundaries = <<3>>
    /\ \E k \in 1..Len(batches) :
          /\ batches[k].members = <<1, 3>>
          /\ OrigLen(1) = 1
          /\ OrigLen(3) = 2
          /\ Len(batches[k].input_ids[1]) = 2
          /\ kwargs.max_sequence_length # 2

\* C7: when the collection that reaches from_examples is empty or null, the
\* call logs one warning and returns None, and no pipeline stage is built.
C7_EmptyGivesNone ==
    (pc # "idle" /\ Falsy(examples)) =>
        /\ pc = "none"
        /\ warnings = 1
        /\ stream = <<>>
        /\ windows = NoWindows
        /\ batches = <<>>

\* from_instances returned None on instances that were all dropped, one of
\* them by its null parse result.
C7_Witness ==
    /\ pc = "none"
    /\ entry = "from_instances"
    /\ Len(input) >= 2
    /\ Len(parsed) >= 1
    /\ examples = PyList(<<>>)
    /\ warnings = 1

\* C8 (as claimed): a builder's result is None, or a stream that yields at
\* least one batch.
C8_NeverEmptyStream ==
    pc = "end" => batches # <<>>

\* The instances from_instances is to keep.
GoodInstances ==
    {i \in 1..Len(input) : ~Falsy(input[i]) /\ ~Falsy(parse(input[i]))}

\* The k-th smallest member of a set of numbers.
Kth(S, k) == CHOOSE i \in S : Cardinality({j \in S : j <= i}) = k

TruthyInstances == {i \in 1..Len(input) : ~Falsy(input[i])}

\* C10: from_instances hands from_examples the parse results of the truthy
\* instances whose parse result is truthy, each once and in the instances'
\* order, and invokes the parser on the truthy instances only.
C10_FromInstances ==
    entry = "from_instances" =>
        /\ examples # None
        /\ Len(examples.list) = Cardinality(GoodInstances)
        /\ \A k \in 1..Len(examples.list) :
              examples.list[k] = parse(input[Kth(GoodInstances, k)])
        /\ Len(parsed) = Cardinality(TruthyInstances)
        /\ \A k \in 1..Len(parsed) : parsed[k] = input[Kth(TruthyInstances, k)]

\* Two different texts around an empty instance: two examples, the first
\* and the third instance's.
C10_Witness ==
    /\ entry = "from_instances"
    /\ input = <<Text(<<7>>), Text(<<>>), Text(<<8>>)>>
    /\ examples = PyList(<<parse(Text(<<7>>)), parse(Text(<<8>>))>>)
    /\ parsed = <<Text(<<7>>), Text(<<8>>)>>

----------------------------------------------------------------------------
\* Properties of the record codec (under SpecCodec)

\* The decoded element el holds exactly the three sequences of example ex,
\* each under its own field.
SameAs(el, ex) ==
    /\ [i \in 1..Len(el.a) |-> Wide(el.a[i])] = ex.input_ids
    /\ [i \in 1..Len(el.b) |-> Wide(el.b[i])] = ex.segment_ids
    /\ [i \in 1..Len(el.c) |-> Wide(el.c[i])] = ex.attention_mask

InInt32(v) == v[1] >= 0 - Limb \div 2 /\ v[1] < Limb \div 2

FitsInt32(ex) ==
    /\ \A i \in 1..Len(ex.input_ids) : InInt32(ex.input_ids[i])
    /\ \A i \in 1..Len(ex.segment_ids) : InInt32(ex.segment_ids[i])
    /\ \A i \in 1..Len(ex.attention_mask) : InInt32(ex.attention_mask[i])

\* C6 (as claimed): every example save_tfrecord wrote is decoded by
\* from_tfrecord_files to three sequences equal to its own, whatever int64
\* values it holds.
C6_RoundTripAnyInt64 ==
    entry = "from_tfrecord_files" =>
        \A i \in 1..Len(saved) :
            saved[i] # None => i <= Len(decoded) /\ SameAs(decoded[i], saved[i])

\* C6 (amended): every example save_tfrecord wrote whose values all lie in
\* the signed 32-bit range is decoded by from_tfrecord_files to three
\* sequences equal to its own: same lengths, same values, same fields.
C6_RoundTripInt32 ==
    entry = "from_tfrecord_files" =>
        \A i \in 1..Len(saved) :
            saved[i] # None =>
                /\ i <= Len(decoded)
                /\ Len(decoded[i].a) = Len(saved[i].input_ids)
                /\ FitsInt32(saved[i]) => SameAs(decoded[i], saved[i])

\* Two examples written and read back, the first holding 2^31 - 1.
C6_Witness ==
    /\ entry = "from_tfrecord_files"
    /\ Len(saved) = 2
    /\ saved[1] = WideExample(<<<<Limb \div 2 - 1, Limb - 1>>>>)
    /\ saved[2] = WideExample(<<Wide(101), Wide(5)>>)
    /\ Len(decoded) = 2
    /\ decoded[1].a = <<(Limb \div 2 - 1) * Limb + (Limb - 1)>>
    /\ decoded[2].a = <<101, 5>>

\* C9 (as claimed): a record lacking one of the three fields ends the
\* decoding in an error, and no element is emitted for it.
C9_MissingFieldRaises ==
    entry = "from_tfrecord_files" =>
        \A i \in 1..Len(files) :
            DOMAIN files[i] # FeatureKeys => raises /\ i > Len(decoded)

====
